---- MODULE Spec2Model ----
(***************************************************************************)
(* Model of one run of crawl_and_check_images (src/app.py): discovery of   *)
(* the page list by get_all_article_links, then the checking loop over the *)
(* pages with the checked_images cache and check_image_status.             *)
(*                                                                         *)
(* Strings are sequences of tokens; "x in s" (Python substring test) is    *)
(* IsSubstring on those sequences.  A URL is a record [host, path]: host   *)
(* is what urlparse(url).netloc returns.  The 'Checked At' field of a row  *)
(* is a wall-clock timestamp and is not part of the model.                 *)
(***************************************************************************)
EXTENDS Integers, Sequences, FiniteSets, TLC

(* ------------------------------ bounds -------------------------------- *)
\* largest page cap the user may configure in the model (source: 1..1000)
MaxPagesCap == 2
\* largest number of image references one page delivers to the extraction
MaxImgs == 2

(* --------------------------- program constants ------------------------ *)
max_load_more_clicks == 20

(* ------------------------------ strings ------------------------------- *)
\* Python "s in t" for strings
IsSubstring(s, t) ==
    \E i \in 0..(Len(t) - Len(s)) : SubSeq(t, i + 1, i + Len(s)) = s

\* str.lower() on one token
LowerTok(w) ==
    CASE w = "IMAGE" -> "image"
      [] w = "PNG" -> "png"
      [] w = "Timeout" -> "timeout"
      [] w = "ECONNREFUSED" -> "econnrefused"
      [] w = "ECONNRESET" -> "econnreset"
      [] OTHER -> w

\* str.lower()
Lower(s) == [i \in 1..Len(s) |-> LowerTok(s[i])]

\* all sequences without repetition that enumerate the set S
Perms(S) ==
    {f \in [1..Cardinality(S) -> S] : \A i, j \in 1..Cardinality(S) : f[i] = f[j] => i = j}

\* the set of elements of a sequence
Range(s) == {s[i] : i \in 1..Len(s)}

\* Python list[:n]
Take(s, n) == SubSeq(s, 1, IF n < Len(s) THEN n ELSE Len(s))

(* ------------------------------- URLs --------------------------------- *)
base_url == [scheme |-> "https", host |-> <<"a", "b">>, path |-> "home"]

\* urlparse(base_url).netloc
base_domain == base_url.host

\* hrefs the link-extraction script can return from the start page
LinkUniverse ==
    { base_url,
      [scheme |-> "https", host |-> <<"a", "b">>, path |-> "post1"],
      [scheme |-> "https", host |-> <<"a", "c", "b">>, path |-> "elsewhere"] }

\* raw image references a page can hold: kind "abs" is an absolute http(s)
\* URL, "rel" a relative reference whose text starts with "http", "data" a
\* data: URI, "bad" an http URL urlsplit rejects (unbalanced '[' in netloc)
RefUniverse ==
    { [kind |-> "abs", scheme |-> "https", host |-> <<"c", "a", "b">>, path |-> "in.png"],
      [kind |-> "abs", scheme |-> "https", host |-> <<"c", "d">>, path |-> "out.png"],
      [kind |-> "rel", scheme |-> "", host |-> <<>>, path |-> "httpdocs.png"],
      [kind |-> "data", scheme |-> "data", host |-> <<>>, path |-> "inline"],
      [kind |-> "bad", scheme |-> "http", host |-> <<"[">>, path |-> "x.png"] }

\* str.startswith('http')
StartsWithHttp(ref) == ref.kind \in {"abs", "rel", "bad"}

\* urljoin raises ValueError on a URL urlsplit rejects
UrljoinRaises(ref) == ref.kind = "bad"

\* urljoin(page_url, img_url)
urljoin(page_url, ref) ==
    IF ref.kind = "rel"
    THEN [scheme |-> page_url.scheme, host |-> page_url.host, path |-> ref.path]
    ELSE [scheme |-> ref.scheme, host |-> ref.host, path |-> ref.path]

is_internal_url(url, domain) ==
    url.host = <<>> \/ IsSubstring(domain, url.host)

(* ------------------------- check_image_status ------------------------- *)
\* what page.request.get can do: return a response (status, content-type
\* header present or not) or raise with a message
Outcomes ==
    { [kind |-> "response", status |-> 200, has_ct |-> h, content_type |-> c, msg |-> <<>>] :
        h \in {TRUE}, c \in { <<>>, <<"image", "/", "png">>, <<"IMAGE", "/", "PNG">>,
                               <<"text", "/", "html">>, <<"application", "/", "octet-stream">> } }
    \cup
    { [kind |-> "response", status |-> 200, has_ct |-> FALSE, content_type |-> <<>>, msg |-> <<>>] }
    \cup
    { [kind |-> "response", status |-> s, has_ct |-> TRUE, content_type |-> <<"text", "/", "html">>,
       msg |-> <<>>] : s \in {404, 403, 503} }
    \cup
    { [kind |-> "raise", status |-> 0, has_ct |-> FALSE, content_type |-> <<>>, msg |-> m] :
        m \in { <<"Timeout", "15000ms", "exceeded">>, <<"timed out">>, <<"ECONNREFUSED">>,
                <<"Timeout", "img", "404">>, <<"ECONNRESET", "img", "404">>,
                <<"ECONNRESET", "403">>, <<"ECONNRESET", "502">> } }

\* response.headers.get('content-type', '')
HeadersGet(outcome) == IF outcome.has_ct THEN outcome.content_type ELSE <<>>

\* the test of line 416 as written with the inverted 'image' test
SoftNotFoundInverted(content_type) ==
    /\ content_type # <<>>
    /\ IsSubstring(<<"image">>, content_type)
    /\ ~IsSubstring(<<"octet-stream">>, content_type)

\* line 416: content_type and 'image' not in content_type and
\* 'octet-stream' not in content_type
SoftNotFound(content_type) ==
    /\ content_type # <<>>
    /\ ~IsSubstring(<<"image">>, content_type)
    /\ ~IsSubstring(<<"octet-stream">>, content_type)

\* the except block with the '404' test ahead of the timeout test
ClassifyErrorNoTimeoutFirst(error_str) ==
    IF IsSubstring(<<"404">>, error_str) THEN 404
    ELSE IF IsSubstring(<<"timeout">>, error_str) \/ IsSubstring(<<"timed out">>, error_str) THEN 0
    ELSE IF IsSubstring(<<"403">>, error_str) THEN 403
    ELSE IF \/ IsSubstring(<<"500">>, error_str)
            \/ IsSubstring(<<"502">>, error_str)
            \/ IsSubstring(<<"503">>, error_str) THEN 500
    ELSE 0

\* the except block of check_image_status, on str(e).lower()
ClassifyError(error_str) ==
    IF IsSubstring(<<"timeout">>, error_str) \/ IsSubstring(<<"timed out">>, error_str) THEN 0
    ELSE IF IsSubstring(<<"404">>, error_str) THEN 404
    ELSE IF IsSubstring(<<"403">>, error_str) THEN 403
    ELSE IF \/ IsSubstring(<<"500">>, error_str)
            \/ IsSubstring(<<"502">>, error_str)
            \/ IsSubstring(<<"503">>, error_str) THEN 500
    ELSE 0

\* image_url.startswith('http') on a resolved URL
UrlStartsWithHttp(url) == url.scheme \in {"http", "https"}

check_image_status(image_url, outcome) ==
    IF ~UrlStartsWithHttp(image_url) THEN 0
    ELSE IF outcome.kind = "raise" THEN ClassifyError(Lower(outcome.msg))
    ELSE IF outcome.status = 200 /\ SoftNotFound(Lower(HeadersGet(outcome))) THEN 404
    ELSE outcome.status

\* the label chain with the 404 and 403 branches exchanged
StatusLabelSwapped(status_code) ==
    IF status_code = 200 THEN <<"OK">>
    ELSE IF status_code = 403 THEN <<"NOT FOUND">>
    ELSE IF status_code = 404 THEN <<"FORBIDDEN">>
    ELSE IF status_code = 0 THEN <<"CONNECTION ERROR">>
    ELSE <<"ERROR", status_code>>

\* lines 500-510: the Status label of a row
StatusLabel(status_code) ==
    IF status_code = 200 THEN <<"OK">>
    ELSE IF status_code = 404 THEN <<"NOT FOUND">>
    ELSE IF status_code = 403 THEN <<"FORBIDDEN">>
    ELSE IF status_code = 0 THEN <<"CONNECTION ERROR">>
    ELSE <<"ERROR", status_code>>

(* ------------------------------- state -------------------------------- *)
VARIABLES
    pc,                \* position of the run
    max_pages,         \* configured page cap
    include_external,  \* configured flag
    load_more_clicks,  \* clicks done by the load-more loop (0 outside get_all_article_links)
    disc_raised,       \* history: discovery steps that raised
    article_links,     \* list returned by get_all_article_links
    idx,               \* 1-based position of the checking loop
    images,            \* images of the current page still to handle
    checked_images,    \* cache: resolved URL -> status code
    results,           \* result rows
    check_calls,       \* history: arguments of check_image_status, in order
    navigated,         \* history: pages the checking loop navigated to
    page_errors,       \* history: loop positions whose processing raised
    skipped,           \* history: resolved URLs skipped as external
    probe,             \* history: what the request of this step's check did
    extraction,        \* history: what this step's goto + extract_images_from_page did
    look               \* history of the load-more loop: what its latest iteration met
                       \* and the clicks it performed (reset when discovery returns)

vars == <<pc, max_pages, include_external, load_more_clicks, disc_raised,
          article_links, idx, images, checked_images, results, check_calls,
          navigated, page_errors, skipped, probe, extraction, look>>

NoProbe == [kind |-> "none", status |-> 0, has_ct |-> FALSE, content_type |-> <<>>, msg |-> <<>>]

NoLook == [saw |-> "none", clicks |-> 0]

NoExtraction == [kind |-> "none", stage |-> "none", collected |-> <<>>]

Init ==
    /\ pc = "goto"
    /\ max_pages \in 1..MaxPagesCap
    /\ include_external \in BOOLEAN
    /\ load_more_clicks = 0
    /\ disc_raised = {}
    /\ article_links = <<>>
    /\ idx = 1
    /\ images = <<>>
    /\ checked_images = <<>>
    /\ results = <<>>
    /\ check_calls = <<>>
    /\ navigated = <<>>
    /\ page_errors = {}
    /\ skipped = {}
    /\ probe = NoProbe
    /\ extraction = NoExtraction
    /\ look = NoLook

checking_vars == <<idx, images, checked_images, results, check_calls,
                   navigated, page_errors, skipped, probe, extraction>>
config_vars == <<max_pages, include_external>>

(* ----------------------- get_all_article_links ------------------------ *)
\* the outer except block letting the exception escape to the caller
DiscoveryExceptPropagates(url) == [pc |-> "aborted", links |-> <<>>]

\* lines 397-399: the outer except block returns [base_url]
DiscoveryExcept(url) == [pc |-> "checking", links |-> <<url>>]

\* the return statement without the slice
TruncateNone(links, n) == links

\* line 395: list(article_links)[:max_pages]
Truncate(links, n) == Take(links, n)

\* lines 459-461: an empty list is replaced by [base_url]
OrHomepage(links) == IF links = <<>> THEN <<base_url>> ELSE links

\* the loop condition as `while True`
LoopCondAlways(clicks) == TRUE

\* line 301: load_more_clicks < max_load_more_clicks
LoopCond(clicks) == clicks < max_load_more_clicks

\* line 294: page.goto(base_url) returns
Goto ==
    /\ pc = "goto"
    /\ pc' = "loadmore"
    /\ load_more_clicks' = 0
    /\ UNCHANGED <<disc_raised, article_links, checking_vars, look, config_vars>>

\* lines 301-314: one iteration that finds a visible control and clicks it
LoadMoreClick ==
    /\ pc = "loadmore"
    /\ LoopCond(load_more_clicks)
    /\ load_more_clicks' = load_more_clicks + 1
    /\ look' = [saw |-> "visible", clicks |-> look.clicks + 1]
    /\ UNCHANGED <<pc, disc_raised, article_links, checking_vars, config_vars>>

\* lines 315-316: no visible control, break
LoadMoreBreak ==
    /\ pc = "loadmore"
    /\ LoopCond(load_more_clicks)
    /\ pc' = "scroll"
    /\ look' = [saw |-> "absent", clicks |-> look.clicks]
    /\ UNCHANGED <<load_more_clicks, disc_raised, article_links, checking_vars, config_vars>>

\* lines 317-318: a call of the iteration raised, break; the call is the
\* scroll, the lookup or the click itself (no click performed), or the wait
\* of line 313 (the click was performed, the counter not yet incremented)
LoadMoreRaise ==
    /\ pc = "loadmore"
    /\ LoopCond(load_more_clicks)
    /\ pc' = "scroll"
    /\ disc_raised' = disc_raised \cup {"loadmore"}
    /\ \E clicked \in {0, 1} : look' = [saw |-> "raise", clicks |-> look.clicks + clicked]
    /\ UNCHANGED <<load_more_clicks, article_links, checking_vars, config_vars>>

\* line 301: the loop condition fails
LoadMoreCap ==
    /\ pc = "loadmore"
    /\ ~LoopCond(load_more_clicks)
    /\ pc' = "scroll"
    /\ UNCHANGED <<load_more_clicks, disc_raised, article_links, checking_vars, look, config_vars>>

\* lines 323-340: the scroll script returns
Scroll ==
    /\ pc = "scroll"
    /\ pc' = "extract_links"
    /\ UNCHANGED <<load_more_clicks, disc_raised, article_links, checking_vars, look, config_vars>>

\* lines 343-395: the link script returns article_links_found; internal
\* links and base_url go into a set; the set is listed in an order the
\* program does not control and cut to max_pages
ExtractLinks ==
    /\ pc = "extract_links"
    /\ \E found \in SUBSET LinkUniverse :
         LET article_set == {l \in found : is_internal_url(l, base_domain)} \cup {base_url}
         IN \E listed \in Perms(article_set) :
              article_links' = OrHomepage(Truncate(listed, max_pages))
    /\ pc' = "checking"
    /\ idx' = 1
    /\ load_more_clicks' = 0
    /\ look' = NoLook
    /\ UNCHANGED <<disc_raised, images, checked_images, results,
                   check_calls, navigated, page_errors, skipped, probe, extraction, config_vars>>

\* goto, the scroll script or the link script raised: outer except block
DiscoveryRaise ==
    /\ pc \in {"goto", "scroll", "extract_links"}
    /\ disc_raised' = disc_raised \cup {pc}
    /\ pc' = DiscoveryExcept(base_url).pc
    /\ article_links' = OrHomepage(DiscoveryExcept(base_url).links)
    /\ idx' = 1
    /\ load_more_clicks' = 0
    /\ look' = NoLook
    /\ UNCHANGED <<images, checked_images, results,
                   check_calls, navigated, page_errors, skipped, probe, extraction, config_vars>>

(* ----------------------- crawl_and_check_images ----------------------- *)
\* line 471: the pages the loop iterates, article_links[:max_pages]
LoopPages == Take(article_links, max_pages)

\* the except block of the loop leaving the loop
AfterPageErrorBreak(i, n) == n + 1

\* lines 520-522: the except block continues with the next page
AfterPageError(i, n) == i + 1

\* the cache test always missing
CacheHitNever(url, cache) == FALSE

\* line 494: full_img_url in checked_images
CacheHit(url, cache) == url \in DOMAIN cache

\* the skip test with the flag's negation forgotten
SkipExternalFlagInverted(flag, url, domain) == flag /\ ~is_internal_url(url, domain)

\* line 490: not include_external and not is_internal_url(...)
SkipExternal(flag, url, domain) == ~flag /\ ~is_internal_url(url, domain)

\* lines 512-518
Row(page_url, full_img_url, status_code) ==
    [PageURL |-> page_url, ImageURL |-> full_img_url,
     StatusCode |-> status_code, Status |-> StatusLabel(status_code)]

\* line 280: list(set([img for img in images if img.startswith('http')]))
UniqueImages(imgs) == Perms({r \in Range(imgs) : StartsWithHttp(r)})

\* sequences over S of length at most n
SeqsUpTo(S, n) == UNION {[1..k -> S] : k \in 0..n}

\* lines 250 and 277: the http URLs of the list `images` as the stages
\* extended it, each at its first occurrence
RECURSIVE Collected(_)
Collected(imgs) ==
    IF imgs = <<>> THEN <<>>
    ELSE LET before == Collected(SubSeq(imgs, 1, Len(imgs) - 1))
             last == imgs[Len(imgs)]
         IN IF StartsWithHttp(last) /\ last \notin Range(before)
            THEN Append(before, last)
            ELSE before

\* the calls of lines 480-481 that can raise, in program order: page.goto,
\* the network-idle wait (178), the scroll scripts (181-213), the img/srcset
\* script (216-247), the background-image script (253-274)
PageStages == {"goto", "idle", "scroll", "img", "bg"}

\* lines 480-481 raise: page.goto or a stage of extract_images_from_page;
\* only a failure of the last stage comes after img_data was obtained
PageRaise ==
    /\ pc = "checking"
    /\ idx <= Len(LoopPages)
    /\ navigated' = Append(navigated, LoopPages[idx])
    /\ page_errors' = page_errors \cup {idx}
    /\ idx' = AfterPageError(idx, Len(LoopPages))
    /\ probe' = NoProbe
    /\ \E stage \in PageStages :
       \E img_data \in SeqsUpTo(RefUniverse, IF stage = "bg" THEN MaxImgs ELSE 0) :
         extraction' = [kind |-> "raised", stage |-> stage, collected |-> Collected(img_data)]
    /\ UNCHANGED <<pc, load_more_clicks, disc_raised, article_links, images,
                   checked_images, results, check_calls, skipped, look, config_vars>>

\* lines 480-483: the page loads and extract_images_from_page returns
PageExtract ==
    /\ pc = "checking"
    /\ idx <= Len(LoopPages)
    /\ navigated' = Append(navigated, LoopPages[idx])
    /\ \E img_data \in SeqsUpTo(RefUniverse, MaxImgs) :
       \E bg_images \in SeqsUpTo(RefUniverse, MaxImgs - Len(img_data)) :
         /\ images' \in UniqueImages(img_data \o bg_images)
         /\ extraction' = [kind |-> "returned", stage |-> "none",
                           collected |-> Collected(img_data \o bg_images)]
    /\ pc' = "images"
    /\ probe' = NoProbe
    /\ UNCHANGED <<load_more_clicks, disc_raised, article_links, idx,
                   checked_images, results, check_calls, page_errors, skipped, look, config_vars>>

\* line 487 raises inside the image loop: the page's except block runs
ImageRaise ==
    /\ pc = "images"
    /\ images # <<>>
    /\ UrljoinRaises(Head(images))
    /\ page_errors' = page_errors \cup {idx}
    /\ idx' = AfterPageError(idx, Len(LoopPages))
    /\ images' = <<>>
    /\ pc' = "checking"
    /\ probe' = NoProbe
    /\ extraction' = NoExtraction
    /\ UNCHANGED <<load_more_clicks, disc_raised, article_links, checked_images,
                   results, check_calls, navigated, skipped, look, config_vars>>

\* lines 489-491: external image skipped
ImageSkip ==
    /\ pc = "images"
    /\ images # <<>>
    /\ ~UrljoinRaises(Head(images))
    /\ LET full_img_url == urljoin(LoopPages[idx], Head(images))
       IN /\ SkipExternal(include_external, full_img_url, base_domain)
          /\ skipped' = skipped \cup {full_img_url}
    /\ images' = Tail(images)
    /\ probe' = NoProbe
    /\ extraction' = NoExtraction
    /\ UNCHANGED <<pc, load_more_clicks, disc_raised, article_links, idx, checked_images,
                   results, check_calls, navigated, page_errors, look, config_vars>>

\* lines 494-495 and 500-518: status from the cache, row appended
ImageCached ==
    /\ pc = "images"
    /\ images # <<>>
    /\ ~UrljoinRaises(Head(images))
    /\ LET full_img_url == urljoin(LoopPages[idx], Head(images))
       IN /\ ~SkipExternal(include_external, full_img_url, base_domain)
          /\ CacheHit(full_img_url, checked_images)
          /\ results' = Append(results,
                               Row(LoopPages[idx], full_img_url, checked_images[full_img_url]))
    /\ images' = Tail(images)
    /\ probe' = NoProbe
    /\ extraction' = NoExtraction
    /\ UNCHANGED <<pc, load_more_clicks, disc_raised, article_links, idx, checked_images,
                   check_calls, navigated, page_errors, skipped, look, config_vars>>

\* lines 496-518: check_image_status called, cache filled, row appended
ImageCheck ==
    /\ pc = "images"
    /\ images # <<>>
    /\ ~UrljoinRaises(Head(images))
    /\ LET full_img_url == urljoin(LoopPages[idx], Head(images))
       IN /\ ~SkipExternal(include_external, full_img_url, base_domain)
          /\ ~CacheHit(full_img_url, checked_images)
          /\ \E outcome \in Outcomes :
               LET status_code == check_image_status(full_img_url, outcome)
               IN /\ checked_images' =
                       [u \in DOMAIN checked_images \cup {full_img_url} |->
                          IF u = full_img_url THEN status_code ELSE checked_images[u]]
                  /\ results' = Append(results, Row(LoopPages[idx], full_img_url, status_code))
                  /\ probe' = outcome
          /\ check_calls' = Append(check_calls, full_img_url)
    /\ images' = Tail(images)
    /\ extraction' = NoExtraction
    /\ UNCHANGED <<pc, load_more_clicks, disc_raised, article_links, idx,
                   navigated, page_errors, skipped, look, config_vars>>

\* the image loop of one page is exhausted: next page
PageDone ==
    /\ pc = "images"
    /\ images = <<>>
    /\ idx' = idx + 1
    /\ pc' = "checking"
    /\ probe' = NoProbe
    /\ extraction' = NoExtraction
    /\ UNCHANGED <<load_more_clicks, disc_raised, article_links, images, checked_images,
                   results, check_calls, navigated, page_errors, skipped, look, config_vars>>

\* lines 524-527: the page loop is exhausted, browser closed, results returned
Finish ==
    /\ pc = "checking"
    /\ idx > Len(LoopPages)
    /\ pc' = "done"
    /\ UNCHANGED <<load_more_clicks, disc_raised, article_links, checking_vars, look, config_vars>>

Next ==
    \/ Goto
    \/ LoadMoreClick
    \/ LoadMoreBreak
    \/ LoadMoreRaise
    \/ LoadMoreCap
    \/ Scroll
    \/ ExtractLinks
    \/ DiscoveryRaise
    \/ PageRaise
    \/ PageExtract
    \/ ImageRaise
    \/ ImageSkip
    \/ ImageCached
    \/ ImageCheck
    \/ PageDone
    \/ Finish

Spec == Init /\ [][Next]_vars

\* get_all_article_links alone; every call of it returns or raises within
\* its timeout, so a step that can be taken is eventually taken
DiscoveryNext ==
    \/ Goto
    \/ LoadMoreClick
    \/ LoadMoreBreak
    \/ LoadMoreRaise
    \/ LoadMoreCap
    \/ Scroll
    \/ ExtractLinks
    \/ DiscoveryRaise

SpecDiscovery == Init /\ [][DiscoveryNext]_vars /\ WF_vars(DiscoveryNext)

(* ------------------------------ claims -------------------------------- *)
Returned == pc \in {"checking", "images", "done"}

LastRow == results[Len(results)]

\* the request of the step just taken was made by check_image_status
Probed == probe.kind # "none" /\ results # <<>>

\* C1: within one run check_image_status is invoked at most once per
\* absolute image URL, whatever the first check returned (0 included);
\* a URL in the checked_images cache is exactly a URL that was checked.
C1_CheckedAtMostOnce ==
    /\ \A i, j \in 1..Len(check_calls) : check_calls[i] = check_calls[j] => i = j
    /\ Range(check_calls) = DOMAIN checked_images

\* a URL whose check returned 0 is reported again from a later page
C1_Witness ==
    \E i, j \in 1..Len(results) :
        /\ i < j
        /\ results[i].ImageURL = results[j].ImageURL
        /\ results[i].PageURL # results[j].PageURL
        /\ results[i].StatusCode = 0
        /\ Len(check_calls) = 1

\* C2: two rows with the same Image URL carry the same Status Code and the
\* same Status label, whichever pages they were found on.
C2_SameUrlSameStatus ==
    \A i, j \in 1..Len(results) :
        results[i].ImageURL = results[j].ImageURL =>
            /\ results[i].StatusCode = results[j].StatusCode
            /\ results[i].Status = results[j].Status

\* the same image reported OK from two different pages
C2_Witness ==
    \E i, j \in 1..Len(results) :
        /\ results[i].ImageURL = results[j].ImageURL
        /\ results[i].PageURL # results[j].PageURL
        /\ results[i].StatusCode = 200
        /\ pc = "done"

\* C3: the list returned by get_all_article_links has at most max_pages
\* entries and the checking loop navigates to at most max_pages pages.
C3_PageCap ==
    /\ Len(article_links) <= max_pages
    /\ Len(navigated) <= max_pages

\* two pages were discovered under a cap of one: the list was cut
C3_Witness ==
    /\ pc = "done"
    /\ max_pages = 1
    /\ disc_raised = {}
    /\ article_links # <<base_url>>
    /\ Len(navigated) = 1

\* C4: the page list returned by get_all_article_links always contains
\* base_url, also when it is cut to max_pages.
C4_StartUrlListed == Returned => base_url \in Range(article_links)

\* C5 as stated: a response with status 200 whose content-type header does
\* not indicate an image or binary payload (absent or empty header
\* included) gives a row classified NOT FOUND, never OK.
C5_Original ==
    ( /\ Probed
      /\ probe.kind = "response"
      /\ probe.status = 200
      /\ ~IsSubstring(<<"image">>, Lower(HeadersGet(probe)))
      /\ ~IsSubstring(<<"octet-stream">>, Lower(HeadersGet(probe))) )
    => LastRow.Status = <<"NOT FOUND">>

\* C5 amended: a response with status 200 whose content-type header is
\* present, non-empty and contains neither "image" nor "octet-stream"
\* (case-insensitively) gives a row with code 404 classified NOT FOUND;
\* with an absent or empty header the row stays 200 / OK.
C5_SoftNotFound ==
    (Probed /\ probe.kind = "response" /\ probe.status = 200) =>
        LET ct == Lower(HeadersGet(probe))
        IN /\ ( /\ ct # <<>>
                /\ ~IsSubstring(<<"image">>, ct)
                /\ ~IsSubstring(<<"octet-stream">>, ct) )
              => (LastRow.StatusCode = 404 /\ LastRow.Status = <<"NOT FOUND">>)
           /\ ct = <<>> => (LastRow.StatusCode = 200 /\ LastRow.Status = <<"OK">>)

\* a 200 text/html response was just classified
C5_Witness ==
    /\ Probed
    /\ probe.kind = "response"
    /\ probe.status = 200
    /\ probe.content_type = <<"text", "/", "html">>
    /\ LastRow.Status = <<"NOT FOUND">>

\* C6 as stated: whenever the request raises, the row has Status Code 0 and
\* classification CONNECTION ERROR, for every failure message.
C6_Original ==
    (Probed /\ probe.kind = "raise") =>
        (LastRow.StatusCode = 0 /\ LastRow.Status = <<"CONNECTION ERROR">>)

MentionsTimeout(m) == IsSubstring(<<"timeout">>, m) \/ IsSubstring(<<"timed out">>, m)

MentionsHttpError(m) ==
    \E t \in {"404", "403", "500", "502", "503"} : IsSubstring(<<t>>, m)

\* C6 amended: when the request raises, the row has Status Code 0 and
\* classification CONNECTION ERROR if the lower-cased message mentions a
\* timeout or mentions none of 404, 403, 500, 502, 503; a message without
\* a timeout that mentions one of these numbers gives code 404, 403 or 500
\* instead; in both cases the URL is checked once only.
C6_RaiseClassified ==
    (Probed /\ probe.kind = "raise") =>
        LET m == Lower(probe.msg)
        IN /\ (MentionsTimeout(m) \/ ~MentionsHttpError(m))
              => (LastRow.StatusCode = 0 /\ LastRow.Status = <<"CONNECTION ERROR">>)
           /\ (~MentionsTimeout(m) /\ MentionsHttpError(m))
              => LastRow.StatusCode \in {404, 403, 500}
           /\ Cardinality({i \in 1..Len(check_calls) : check_calls[i] = LastRow.ImageURL}) = 1

\* a timeout whose message also carries "404" was recorded as code 0
C6_Witness ==
    /\ Probed
    /\ probe.kind = "raise"
    /\ probe.msg = <<"Timeout", "img", "404">>
    /\ LastRow.StatusCode = 0
    /\ LastRow.Status = <<"CONNECTION ERROR">>

\* non-empty host that does not contain the base domain
External(url) == url.host # <<>> /\ ~IsSubstring(base_domain, url.host)

\* C7: with include_external false an external image is skipped before any
\* check (never passed to check_image_status, never cached, in no row);
\* with include_external true no image is skipped.
C7_ExternalSkipped ==
    /\ ~include_external =>
         /\ \A i \in 1..Len(results) : ~External(results[i].ImageURL)
         /\ \A u \in DOMAIN checked_images : ~External(u)
         /\ \A i \in 1..Len(check_calls) : ~External(check_calls[i])
         /\ \A u \in skipped : External(u)
    /\ include_external => skipped = {}

\* a run with externals excluded skipped one image and reported another
C7_Witness ==
    /\ pc = "done"
    /\ ~include_external
    /\ skipped # {}
    /\ results # <<>>

\* C8: a page whose processing raises does not end the run: every page of
\* the list is navigated to, in order, before the run returns, and rows
\* already appended are kept.
C8_PageFailureNotFatal ==
    /\ [](pc = "done" => navigated = LoopPages)
    /\ [][/\ Len(results') >= Len(results)
          /\ SubSeq(results', 1, Len(results)) = results]_vars

\* the first page failed after a row was appended, the second page was
\* still processed and reported
C8_Witness ==
    /\ pc = "done"
    /\ 1 \in page_errors
    /\ Len(navigated) = 2
    /\ \E i, j \in 1..Len(results) :
         /\ results[i].PageURL = LoopPages[1]
         /\ results[j].PageURL = LoopPages[2]

\* C9: in every row the Status label is the function of the Status Code
\* 200 -> OK, 404 -> NOT FOUND, 403 -> FORBIDDEN, 0 -> CONNECTION ERROR,
\* any other code c -> ERROR c.
C9_LabelOfCode ==
    \A i \in 1..Len(results) :
        LET c == results[i].StatusCode
            l == results[i].Status
        IN /\ c = 200 => l = <<"OK">>
           /\ c = 404 => l = <<"NOT FOUND">>
           /\ c = 403 => l = <<"FORBIDDEN">>
           /\ c = 0 => l = <<"CONNECTION ERROR">>
           /\ c \notin {200, 404, 403, 0} => l = <<"ERROR", c>>

\* rows with a FORBIDDEN label and with an ERROR label exist
C9_Witness ==
    /\ \E i \in 1..Len(results) : results[i].Status = <<"FORBIDDEN">>
    /\ \E i \in 1..Len(results) : results[i].Status = <<"ERROR", 503>>

\* C10 as stated: if any step of discovery raised (the load-more phase
\* included), the returned list is exactly [base_url].
C10_Original ==
    (Returned /\ disc_raised # {}) => article_links = <<base_url>>

\* C10 amended: if navigation to the start page, the scroll script or the
\* link extraction raises, get_all_article_links returns exactly
\* [base_url] and the run is in its checking phase; an exception inside
\* the load-more loop only ends that loop.
C10_DiscoveryFallback ==
    /\ (disc_raised \cap {"goto", "scroll", "extract_links"} # {}) =>
         (Returned /\ article_links = <<base_url>>)
    /\ (pc \in {"scroll", "extract_links"} /\ disc_raised # {}) => disc_raised = {"loadmore"}

\* discovery fell back after the link extraction raised and the start page
\* was then processed
C10_Witness ==
    /\ "extract_links" \in disc_raised
    /\ pc = "done"
    /\ navigated = <<base_url>>

\* position of a page in the list the loop iterates
PagePos(u) == CHOOSE k \in 1..Len(LoopPages) : LoopPages[k] = u

\* rows of an earlier page precede rows of a later page
RowsInPageOrder ==
    \A i, j \in 1..Len(results) :
        i < j => PagePos(results[i].PageURL) <= PagePos(results[j].PageURL)

\* C11: result rows preserve page-processing order, and the images of one
\* page are turned into rows in the order in which the extraction
\* collected their URLs (img src/srcset URLs first, then CSS backgrounds).
C11_OrderPreserved ==
    /\ RowsInPageOrder
    /\ extraction.kind = "returned" => images = extraction.collected

\* C12: the load-more phase always terminates and performs at most 20
\* clicks; it ends as soon as no visible control is found, a call of the
\* iteration raises, or the cap is hit; with no visible control at the
\* first look it performs zero clicks.
C12_LoadMoreBounded ==
    /\ [](look.clicks <= 20 /\ load_more_clicks <= 20)
    /\ [][(pc = "loadmore" /\ (look'.saw \in {"absent", "raise"} \/ load_more_clicks = 20))
            => (pc' = "scroll" /\ load_more_clicks' = load_more_clicks)]_vars
    /\ [][(pc = "loadmore" /\ load_more_clicks = 0 /\ look'.saw = "absent")
            => look'.clicks = 0]_vars
    /\ (pc = "loadmore" ~> pc = "scroll")

\* the control stayed visible after every click and the phase ended at the cap
C12_Witness ==
    /\ pc = "scroll"
    /\ look.saw = "visible"
    /\ look.clicks = 20
    /\ load_more_clicks = 20

\* the step just taken was a page whose extraction raised in one of the
\* stages of extract_images_from_page
StageFailed == extraction.kind = "raised" /\ extraction.stage \in {"idle", "scroll", "img", "bg"}

\* the page the loop navigated to last
LastPage == navigated[Len(navigated)]

\* C13 as stated: if one stage of extract_images_from_page fails, the URLs
\* obtained by the other stages are still checked and reported for that
\* page.
C13_Original ==
    StageFailed =>
        \A k \in 1..Len(extraction.collected) :
            LET ref == extraction.collected[k]
            IN ( /\ ~UrljoinRaises(ref)
                 /\ ~SkipExternal(include_external, urljoin(LastPage, ref), base_domain) )
               => \E i \in 1..Len(results) :
                     /\ results[i].PageURL = LastPage
                     /\ results[i].ImageURL = urljoin(LastPage, ref)

\* C13 amended: if a stage of extract_images_from_page raises, the whole
\* page is dropped: no row carries that page, URLs already obtained by an
\* earlier stage included; the page counts as navigated and as failed, and
\* the loop stands at the next page.
C13_StageFailureDropsPage ==
    StageFailed =>
        /\ \A i \in 1..Len(results) : results[i].PageURL # LastPage
        /\ Len(navigated) \in page_errors
        /\ images = <<>>
        /\ pc \in {"checking", "done"}
        /\ idx = Len(navigated) + 1

\* the background scan of the first of two pages failed after the img
\* script had delivered URLs
C13_Witness ==
    /\ StageFailed
    /\ extraction.stage = "bg"
    /\ extraction.collected # <<>>
    /\ pc = "checking"
    /\ idx = 2
    /\ Len(LoopPages) = 2

====
